---- MODULE Spec2Model ----
(***************************************************************************)
(* Model of the oleg-backend chat server.  The repository holds three      *)
(* iterations of one server:                                               *)
(*   ver = 1   src/server.js lines 1-157    (authRouter, receiver-only     *)
(*             fan-out, truthiness checks)                                 *)
(*   ver = 2   src/server.js lines 160-316  (adds message_sent to sender)  *)
(*   ver = 3   src/unnamed/part_000         (ObjectId.isValid checks,      *)
(*             PUT /api/users/:id, receive_message to sender)              *)
(* The iteration that runs is chosen in Init and never changes.            *)
(*                                                                         *)
(* Spec      the socket.io side: connection, join, send_message, the       *)
(*           settling of Message.save(), disconnect.                       *)
(* HttpSpec  the express side: register, login, profile update, list.      *)
(* The two sides share no state in the code (send_message never reads the  *)
(* User collection, the routes never touch sockets or messages), so each   *)
(* is explored on its own.                                                 *)
(***************************************************************************)
EXTENDS Integers, Sequences, FiniteSets, TLC

VARIABLES
    ver,        \* which iteration of the server is running
    sock,       \* session -> "fresh" | "open" | "closed"
    rooms,      \* session -> set of channel names the socket is in (socket.rooms)
    called,     \* history: session -> id -> how often the session called join with it
    arrivals,   \* number of send_message events received so far
    joins,      \* number of join events received so far
    orphans,    \* history: arrivals whose session disconnected during their save
    status,     \* arrival number -> how far its handler got
    pending,    \* handlers suspended in `await msg.save()`: the message, its
                \* arrival number (id) and the session it came from
    log,        \* the Message collection, in insertion order
    emitted,    \* every io.to(channel).emit(...) so far, in order
    inbox,      \* session -> events the transport delivered to it, in order
    users,      \* the User collection, in insertion order
    reqs,       \* register requests suspended between findOne and save
    registered, \* history: (email, password, id) of every 201 registration
    resp,       \* the last HTTP response sent, with the request it answers
    https,      \* number of HTTP requests received so far
    directory   \* the Room collection: room id -> member ids (empty in the
                \* iterations under src/, which have no rooms)

sockVars == <<sock, rooms, called, joins, arrivals, orphans, status, pending, log,
              emitted, inbox>>
httpVars == <<users, reqs, registered, resp, https>>
roomVars == <<directory>>
vars == <<ver, sockVars, httpVars, roomVars>>

\* ---------------------------------------------------------------- bounds
MaxSends == 1       \* send_message events per run of Spec
MaxBurst == 2       \* send_message events per run of BurstSpec
MaxJoins == 2       \* join events per run
MaxHttp  == 3       \* HTTP requests per run

Versions == {1, 2, 3}
Sessions == {"s1", "s2"}

\* ------------------------------------------------------------ identities
\* A 24-character hex string is what the store mints and accepts.
ObjectIdLen == 24

Undefined == [kind |-> "undefined", len |-> 0, hex |-> FALSE, n |-> 0]
StrVal(len, hex, n) == [kind |-> "string", len |-> len, hex |-> hex, n |-> n]
\* the 24-hex id of the n-th document
ObjectId(n) == StrVal(ObjectIdLen, TRUE, n)
\* "user_123": truthy, but no ObjectId (the example of the schema comment)
BadId == StrVal(8, FALSE, 123)

UserA == ObjectId(1)
UserB == ObjectId(2)
Ids == {Undefined, BadId, UserA, UserB}

\* JavaScript truthiness of an id value: `!userId`, `!sender || !receiver`
Truthy(x) == x.kind = "string" /\ x.len > 0

\* variant: a guard that takes any string for an id
IsValid_AnyString(x) == x.kind = "string"
\* mongoose.Types.ObjectId.isValid on the values above.  (Numbers and
\* 12-character strings, which some versions of the library also take, are
\* not among the modelled inputs.)
IsValid(x) == x.kind = "string" /\ x.len = ObjectIdLen /\ x.hex

\* String(userId): the channel name
String(x) == IF x.kind = "undefined" THEN StrVal(9, FALSE, 0) ELSE x

\* ----------------------------------------------------------- socket side
\* send_message payloads: none at all, one id missing, one id malformed,
\* and well-formed pairs (to another user, to oneself)
Payload(a, b) == [present |-> TRUE, sender |-> a, receiver |-> b]
Payloads ==
    { [present |-> FALSE, sender |-> Undefined, receiver |-> Undefined],
      Payload(Undefined, UserB), Payload(UserA, Undefined),
      Payload(BadId, UserB), Payload(UserA, BadId),
      Payload(UserA, UserB), Payload(UserA, UserA) }

\* the guard of the join handler
JoinAccepts(v, userId) ==
    IF v = 3 THEN Truthy(userId) /\ IsValid(userId)
             ELSE Truthy(userId)

\* variant: a second join with the same room leaves it
SocketJoin_Toggle(rs, room) == IF room \in rs THEN rs \ {room} ELSE rs \cup {room}
\* variant: joining a room leaves every other room
SocketJoin_Replace(rs, room) == {room}
\* socket.join(room): socket.rooms is a Set
SocketJoin(rs, room) == rs \cup {room}

\* The synchronous part of the send_message handler, up to `await msg.save()`:
\* "threw" (destructuring undefined, caught), "dropped" (guard returned) or
\* "pending" (save was called).
SendSync(v, payload) ==
    IF v = 1
    THEN IF Truthy(payload.sender) /\ Truthy(payload.receiver)
         THEN "pending" ELSE "dropped"
    ELSE IF ~payload.present THEN "threw"
    ELSE IF v = 2
    THEN IF Truthy(payload.sender) /\ Truthy(payload.receiver)
         THEN "pending" ELSE "dropped"
    ELSE IF IsValid(payload.sender) /\ IsValid(payload.receiver)
         THEN "pending" ELSE "dropped"

\* variant: a schema whose id paths take any string
Castable_AnyString(x) == x.kind = "string"
\* messageSchema: sender and receiver are required ObjectId paths; a value
\* that does not cast makes save() reject with a validation error
Castable(x) == x.kind = "string" /\ x.len = ObjectIdLen /\ x.hex

\* the emits of one saved message, in program order
Emits(v, m) ==
    IF v = 1 THEN
        << [chan |-> String(m.receiver), event |-> "receive_message"] >>
    ELSE IF v = 2 THEN
        << [chan |-> String(m.receiver), event |-> "receive_message"],
           [chan |-> String(m.sender),   event |-> "message_sent"] >>
    ELSE
        << [chan |-> String(m.receiver), event |-> "receive_message"],
           [chan |-> String(m.receiver), event |-> "receive_message"],
           [chan |-> String(m.sender),   event |-> "receive_message"] >>

\* variant: an emit that reaches one socket of the room only
Listeners_OnlyOne(rs, chan) ==
    LET all == {s \in Sessions : chan \in rs[s]}
    IN  IF all = {} THEN {} ELSE {CHOOSE s \in all : TRUE}
\* variant: an emit to everyone connected (io.emit), whatever the room
Listeners_Everyone(rs, chan) == Sessions
\* the sessions io.to(chan) reaches
Listeners(rs, chan) == {s \in Sessions : chan \in rs[s]}

\* io.to(chan).emit(event, data): one copy to every socket in the room
Deliver(ib, rs, e, m) ==
    [s \in Sessions |->
        IF s \in Listeners(rs, e.chan)
        THEN Append(ib[s], [event |-> e.event, id |-> m.id,
                            sender |-> m.sender, receiver |-> m.receiver])
        ELSE ib[s]]

RECURSIVE DeliverAll(_, _, _, _)
DeliverAll(ib, rs, es, m) ==
    IF es = <<>> THEN ib
    ELSE DeliverAll(Deliver(ib, rs, Head(es), m), rs, Tail(es), m)

Stamp(es, m) == [i \in 1..Len(es) |->
                    [chan |-> es[i].chan, event |-> es[i].event, id |-> m.id]]

\* io.on('connection')
Connect(s) ==
    /\ sock[s] = "fresh"
    /\ sock' = [sock EXCEPT ![s] = "open"]
    /\ UNCHANGED <<ver, rooms, called, joins, arrivals, orphans, status, pending,
                   log, emitted, inbox, httpVars, roomVars>>

\* socket.on('join')
Join(s, userId) ==
    /\ sock[s] = "open"
    /\ joins < MaxJoins
    /\ joins' = joins + 1
    /\ called' = [called EXCEPT ![s][userId] = @ + 1]
    /\ rooms' = IF JoinAccepts(ver, userId)
                THEN [rooms EXCEPT ![s] = SocketJoin(@, String(userId))]
                ELSE rooms
    /\ UNCHANGED <<ver, sock, arrivals, orphans, status, pending, log, emitted,
                   inbox, httpVars, roomVars>>

\* socket.on('send_message'), up to the await; limit bounds the run
Send(limit, s, payload) ==
    /\ sock[s] = "open"
    /\ arrivals < limit
    /\ arrivals' = arrivals + 1
    /\ status' = Append(status, SendSync(ver, payload))
    /\ pending' = IF SendSync(ver, payload) = "pending"
                  THEN pending \cup {[id |-> arrivals + 1, from |-> s,
                                      sender |-> payload.sender,
                                      receiver |-> payload.receiver]}
                  ELSE pending
    /\ UNCHANGED <<ver, sock, rooms, called, joins, orphans, log, emitted, inbox,
                   httpVars, roomVars>>

SendMessage(s, payload) == Send(MaxSends, s, payload)

\* variant: a handler that goes on to emit whatever the save did
SaveResult_IgnoresFailure(m, dbOk) == "ok"
\* how `await msg.save()` settles: "rejected" by schema validation, "failed"
\* in the store, or "ok"
SaveResult(m, dbOk) ==
    IF ~(Castable(m.sender) /\ Castable(m.receiver)) THEN "rejected"
    ELSE IF ~dbOk THEN "failed"
    ELSE "ok"

\* The continuation of send_message after `await msg.save()`: the save of m
\* settles; on success the emits follow, on rejection the catch logs.
SaveSettles(m, dbOk) ==
    /\ m \in pending
    /\ pending' = pending \ {m}
    /\ status' = [status EXCEPT ![m.id] = SaveResult(m, dbOk)]
    /\ IF SaveResult(m, dbOk) = "ok"
       THEN /\ log' = Append(log, m)
            /\ emitted' = emitted \o Stamp(Emits(ver, m), m)
            /\ inbox' = DeliverAll(inbox, rooms, Emits(ver, m), m)
       ELSE UNCHANGED <<log, emitted, inbox>>
    /\ UNCHANGED <<ver, sock, rooms, called, joins, arrivals, orphans, httpVars,
                   roomVars>>

\* variant: a disconnect that leaves the socket in its rooms
DisconnectRooms_Stay(rs, s) == rs
\* the rooms after socket s has gone
DisconnectRooms(rs, s) == [rs EXCEPT ![s] = {}]
\* variant: a disconnect that cancels the session's saves in flight
DisconnectPending_Cancel(pd, s) == {m \in pd : m.from # s}
\* the saves in flight after socket s has gone: all of them
DisconnectPending(pd, s) == pd

\* socket 'disconnect': the transport takes the socket out of every room;
\* the handler (first iteration only) just logs
Disconnect(s) ==
    /\ sock[s] = "open"
    /\ sock' = [sock EXCEPT ![s] = "closed"]
    /\ rooms' = DisconnectRooms(rooms, s)
    /\ orphans' = orphans \cup {m.id : m \in {x \in pending : x.from = s}}
    /\ pending' = DisconnectPending(pending, s)
    /\ UNCHANGED <<ver, called, joins, arrivals, status, log, emitted, inbox,
                   httpVars, roomVars>>

\* ------------------------------------------------------------- HTTP side
\* a body field that was not sent (undefined)
Missing == "<undefined>"
Present(x) == x # Missing

Names     == {Missing, "Ann"}
Emails    == {Missing, "a@x", "b@x"}
Passwords == {Missing, "pw1", "pw2"}
Avatars   == {Missing, "img"}

\* an id no document has
StrangerId == ObjectId(99)
ParamIds == {BadId, ObjectId(1), ObjectId(2), StrangerId}

\* bcrypt.hash(password, 10): a salted digest; the salt differs per call
Hash(salt, password) == [salt |-> salt, digest |-> <<salt, password>>]

\* variant: a comparison that accepts every password
Compare_Always(password, hashed) == TRUE
\* bcrypt.compare(password, hash), for a password that is a string
Compare(password, hashed) == hashed.digest = <<hashed.salt, password>>

\* User.findOne({ email }): the set of matches (at most one is returned)
FindByEmail(us, email) == {i \in 1..Len(us) : us[i].email = email}
FindById(us, id) == {i \in 1..Len(us) : us[i]._id = id}

NoBody == [name |-> Missing, email |-> Missing, password |-> Missing,
           avatarImage |-> Missing]

\* the user summary a route answers with: never the password
Summary(u) == [_id |-> u._id, name |-> u.name, email |-> u.email,
               avatarImage |-> u.avatarImage]
NoUser == [_id |-> Undefined, name |-> Missing, email |-> Missing,
           avatarImage |-> Missing]

\* The `message` texts of the answers. The first iteration answers in
\* English; the later two answer in Russian, written here in Latin letters.
NoMessage == ""
FieldsRequired(v) == IF v = 1 THEN "name, email and password are required"
                     ELSE "Zapolnite vse obyazatelnye polya"
UserExists(v) == IF v = 1 THEN "User already exists"
                 ELSE "Polzovatel uzhe sushchestvuet"
ServerError(v) == IF v = 1 THEN "Server error" ELSE "Oshibka servera"
LoginRequired == "email and password required"
InvalidCredentials(v) == IF v = 1 THEN "Invalid credentials"
                         ELSE "Nevernye dannye"
BadIdFormat == "Nevernyi format ID polzovatelya"
UserNotFound == "Polzovatel ne naiden"

\* a response: the route, the request number, the request body, the status,
\* the user summary in the answer (NoUser when it carries a message only)
\* and the message (NoMessage when it carries a user or a list)
Response(op, k, body, code, user, message) ==
    [op |-> op, k |-> k, status |-> code, body |-> body, user |-> user,
     id |-> user._id, message |-> message]

\* POST /api/auth/register, up to the answer of `await User.findOne`
Register(name, email, password) ==
    /\ https < MaxHttp
    /\ https' = https + 1
    /\ LET k == https + 1
           body == [NoBody EXCEPT !.name = name, !.email = email,
                                  !.password = password]
       IN  IF ~Present(name) \/ ~Present(email) \/ ~Present(password)
           THEN /\ resp' = Response("register", k, body, 400, NoUser,
                                      FieldsRequired(ver))
                /\ UNCHANGED reqs
           ELSE IF FindByEmail(users, email) # {}
           THEN /\ resp' = Response("register", k, body, 409, NoUser,
                                      UserExists(ver))
                /\ UNCHANGED reqs
           ELSE /\ reqs' = reqs \cup {[k |-> k, body |-> body]}
                /\ UNCHANGED resp
    /\ UNCHANGED <<ver, roomVars, sockVars, users, registered>>

\* variant: a collection with no unique index on email
UniqueEmail_NoIndex(us, email) == TRUE
\* the unique index on email: an insert of a held email is rejected
UniqueEmail(us, email) == FindByEmail(us, email) = {}

\* new User({ name, email, password: hashed, avatarImage }) of request r: the
\* store mints the id, the salt is fresh
NewUser(r) ==
    [_id |-> ObjectId(r.k), name |-> r.body.name, email |-> r.body.email,
     password |-> Hash(r.k, r.body.password),
     avatarImage |-> r.body.avatarImage]

\* the rest of register: hash, `await user.save()`, 201; a rejected save
\* lands in the catch, which answers 500
RegisterSave(r) ==
    /\ r \in reqs
    /\ reqs' = reqs \ {r}
    /\ IF UniqueEmail(users, r.body.email)
       THEN /\ users' = Append(users, NewUser(r))
            /\ registered' = registered \cup
                    {[email |-> r.body.email, password |-> r.body.password,
                      id |-> NewUser(r)._id]}
            /\ resp' = Response("register", r.k, r.body, 201,
                                Summary(NewUser(r)), NoMessage)
       ELSE /\ resp' = Response("register", r.k, r.body, 500, NoUser,
                                ServerError(ver))
            /\ UNCHANGED <<users, registered>>
    /\ UNCHANGED <<ver, roomVars, sockVars, https>>

\* variant: a login that tells a wrong password from an unknown email
LoginAnswer_WrongPassword(v, us, email, password) ==
    IF v = 1 /\ (~Present(email) \/ ~Present(password))
    THEN [status |-> 400, user |-> NoUser, message |-> LoginRequired]
    ELSE IF FindByEmail(us, email) = {}
    THEN [status |-> 401, user |-> NoUser, message |-> InvalidCredentials(v)]
    ELSE LET user == us[CHOOSE i \in FindByEmail(us, email) : TRUE]
         IN  IF ~Present(password)
             THEN [status |-> 500, user |-> NoUser, message |-> ServerError(v)]
             ELSE IF ~Compare(password, user.password)
             THEN [status |-> 401, user |-> NoUser,
                   message |-> "Wrong password"]
             ELSE [status |-> 200, user |-> Summary(user),
                   message |-> NoMessage]
\* the answer of the login handler to (email, password) over collection us;
\* bcrypt.compare throws on a password that is not a string, and the catch
\* answers 500
LoginAnswer(v, us, email, password) ==
    IF v = 1 /\ (~Present(email) \/ ~Present(password))
    THEN [status |-> 400, user |-> NoUser, message |-> LoginRequired]
    ELSE IF FindByEmail(us, email) = {}
    THEN [status |-> 401, user |-> NoUser, message |-> InvalidCredentials(v)]
    ELSE LET user == us[CHOOSE i \in FindByEmail(us, email) : TRUE]
         IN  IF ~Present(password)
             THEN [status |-> 500, user |-> NoUser, message |-> ServerError(v)]
             ELSE IF ~Compare(password, user.password)
             THEN [status |-> 401, user |-> NoUser,
                   message |-> InvalidCredentials(v)]
             ELSE [status |-> 200, user |-> Summary(user),
                   message |-> NoMessage]

\* POST /api/auth/login
Login(email, password) ==
    /\ https < MaxHttp
    /\ https' = https + 1
    /\ LET a == LoginAnswer(ver, users, email, password)
       IN  resp' = Response("login", https + 1,
                     [NoBody EXCEPT !.email = email, !.password = password],
                     a.status, a.user, a.message)
    /\ UNCHANGED <<ver, roomVars, sockVars, users, reqs, registered>>

\* variant: an update that also clears the credential hash
Updated_ClearsPassword(u, name, avatarImage) ==
    [u EXCEPT !.name = IF Present(name) THEN name ELSE @,
              !.avatarImage = IF Present(avatarImage) THEN avatarImage ELSE @,
              !.password = Hash(0, Missing)]
\* findByIdAndUpdate(userId, { name, avatarImage }, { new: true }) on one
\* document: fields that were not sent are left as they are
Updated(u, name, avatarImage) ==
    [u EXCEPT !.name = IF Present(name) THEN name ELSE @,
              !.avatarImage = IF Present(avatarImage) THEN avatarImage ELSE @]

\* PUT /api/users/:id (third iteration only: the others have no such route)
UpdateProfile(id, name, avatarImage) ==
    /\ ver = 3
    /\ https < MaxHttp
    /\ https' = https + 1
    /\ LET k == https + 1
           body == [NoBody EXCEPT !.name = name, !.avatarImage = avatarImage]
       IN  IF ~IsValid(id)
           THEN /\ resp' = Response("update", k, body, 400, NoUser,
                                      BadIdFormat)
                /\ UNCHANGED users
           ELSE IF FindById(users, id) = {}
           THEN /\ resp' = Response("update", k, body, 404, NoUser,
                                      UserNotFound)
                /\ UNCHANGED users
           ELSE LET i == CHOOSE j \in FindById(users, id) : TRUE
                IN  /\ users' = [users EXCEPT ![i] = Updated(@, name, avatarImage)]
                    /\ resp' = Response("update", k, body, 200,
                                        Summary(users'[i]), NoMessage)
    /\ UNCHANGED <<ver, roomVars, sockVars, reqs, registered>>

\* GET /api/users (second and third iteration): read only
ListUsers ==
    /\ ver # 1
    /\ https < MaxHttp
    /\ https' = https + 1
    /\ resp' = Response("list", https + 1, NoBody, 200, NoUser, NoMessage)
    /\ UNCHANGED <<ver, roomVars, sockVars, users, reqs, registered>>

\* ------------------------------------------------------------ room side
\* The iteration with group rooms is not among the files under src/; its
\* join is taken from the specification (4.1, 4.2).
RoomA == ObjectId(11)
RoomB == ObjectId(12)
RoomIds == {RoomA, RoomB}

\* listRoomsForUser(userId): every room whose member set holds userId
ListRoomsForUser(dir, userId) == {r \in DOMAIN dir : userId \in dir[r]}

\* socket.join for each channel of a set
RECURSIVE JoinEach(_, _)
JoinEach(rs, chans) ==
    IF chans = {} THEN rs
    ELSE LET c == CHOOSE x \in chans : TRUE
         IN  JoinEach(SocketJoin(rs, c), chans \ {c})

\* join(session, userId) of the iteration with rooms: dropped unless userId
\* is a well-formed id; else the user's channel, then the channel of every
\* room the Room Directory lists for the user
RoomJoin(s, userId) ==
    /\ sock[s] = "open"
    /\ joins < MaxJoins
    /\ joins' = joins + 1
    /\ called' = [called EXCEPT ![s][userId] = @ + 1]
    /\ rooms' = IF Truthy(userId) /\ IsValid(userId)
                THEN [rooms EXCEPT ![s] =
                        JoinEach(SocketJoin(@, String(userId)),
                                 {String(r) : r \in ListRoomsForUser(directory, userId)})]
                ELSE rooms
    /\ UNCHANGED <<ver, sock, arrivals, orphans, status, pending, log, emitted,
                   inbox, httpVars, roomVars>>

\* ------------------------------------------------------- specifications
Init ==
    /\ ver \in Versions
    /\ sock = [s \in Sessions |-> "fresh"]
    /\ rooms = [s \in Sessions |-> {}]
    /\ called = [s \in Sessions |-> [x \in Ids |-> 0]]
    /\ arrivals = 0
    /\ joins = 0
    /\ orphans = {}
    /\ status = <<>>
    /\ pending = {}
    /\ log = <<>>
    /\ emitted = <<>>
    /\ inbox = [s \in Sessions |-> <<>>]
    /\ users = <<>>
    /\ reqs = {}
    /\ registered = {}
    /\ resp = Response("none", 0, NoBody, 0, NoUser, NoMessage)
    /\ https = 0
    /\ directory = <<>>

Next ==
    \/ \E s \in Sessions : Connect(s)
    \/ \E s \in Sessions, userId \in Ids : Join(s, userId)
    \/ \E s \in Sessions, payload \in Payloads : SendMessage(s, payload)
    \/ \E m \in pending, dbOk \in BOOLEAN : SaveSettles(m, dbOk)
    \/ \E s \in Sessions : Disconnect(s)

Spec == Init /\ [][Next]_vars

\* Two send_message events in one run, to follow the order in which the
\* saves of one session's messages settle.
BurstNext ==
    \/ \E s \in Sessions : Connect(s)
    \/ \E s \in Sessions, userId \in {UserA, UserB} : Join(s, userId)
    \/ \E s \in Sessions, payload \in Payloads : Send(MaxBurst, s, payload)
    \/ \E m \in pending, dbOk \in BOOLEAN : SaveSettles(m, dbOk)
    \/ \E s \in Sessions : Disconnect(s)

BurstSpec == Init /\ [][BurstNext]_vars

\* The iteration with rooms: some Room Directory is in place at start.
RoomInit ==
    /\ ver = 4
    /\ sock = [s \in Sessions |-> "fresh"]
    /\ rooms = [s \in Sessions |-> {}]
    /\ called = [s \in Sessions |-> [x \in Ids |-> 0]]
    /\ arrivals = 0
    /\ joins = 0
    /\ orphans = {}
    /\ status = <<>>
    /\ pending = {}
    /\ log = <<>>
    /\ emitted = <<>>
    /\ inbox = [s \in Sessions |-> <<>>]
    /\ users = <<>>
    /\ reqs = {}
    /\ registered = {}
    /\ resp = Response("none", 0, NoBody, 0, NoUser, NoMessage)
    /\ https = 0
    /\ directory \in [RoomIds -> SUBSET {UserA, UserB}]

RoomNext ==
    \/ \E s \in Sessions : Connect(s)
    \/ \E s \in Sessions, userId \in Ids : RoomJoin(s, userId)
    \/ \E s \in Sessions : Disconnect(s)

RoomSpec == RoomInit /\ [][RoomNext]_vars

HttpNext ==
    \/ \E name \in Names, email \in Emails, password \in Passwords :
            Register(name, email, password)
    \/ \E r \in reqs : RegisterSave(r)
    \/ \E email \in Emails, password \in Passwords : Login(email, password)
    \/ \E id \in ParamIds, name \in Names, avatarImage \in Avatars :
            UpdateProfile(id, name, avatarImage)
    \/ ListUsers

HttpSpec == Init /\ [][HttpNext]_vars

\* ================================================================ claims
\* A well-formed identity reference: a 24-character hex string.
WellFormed(x) == x.kind = "string" /\ x.len = 24 /\ x.hex

\* positions of a sequence whose entry satisfies a test
Where(seq, Test(_)) == {i \in 1..Len(seq) : Test(seq[i])}

\* the step leaves the Message Log, the emits and every inbox as they were
Quiet == log' = log /\ emitted' = emitted /\ inbox' = inbox

\* the events the step added to the inbox of s
NewIn(s) == SubSeq(inbox'[s], Len(inbox[s]) + 1, Len(inbox'[s]))

\* C1 (as claimed): every send_message with a well-formed sender A and
\* receiver B whose save succeeded appended exactly one Message and emitted
\* receive_message to B's channel and to A's channel.
C1_SendReachesBothChannels ==
    \A n \in 1..arrivals :
        status[n] = "ok" =>
            /\ Cardinality({i \in 1..Len(log) : log[i].id = n}) = 1
            /\ \A i \in 1..Len(log) :
                   log[i].id = n =>
                       /\ WellFormed(log[i].sender) /\ WellFormed(log[i].receiver)
                       /\ \E j \in 1..Len(emitted) :
                              emitted[j] = [chan |-> String(log[i].receiver),
                                            event |-> "receive_message", id |-> n]
                       /\ \E j \in 1..Len(emitted) :
                              emitted[j] = [chan |-> String(log[i].sender),
                                            event |-> "receive_message", id |-> n]

\* C2: a send_message whose sender or receiver is missing or malformed
\* changes nothing: neither when its handler runs, nor when the save it may
\* have started (truthiness-only iterations) settles.  No Message is
\* logged, nothing is emitted, no session (the sender included) gets an event.
MalformedPair(a, b) == ~WellFormed(a) \/ ~WellFormed(b)
C2_MalformedSendIsDropped ==
    [][ /\ \A s \in Sessions, payload \in Payloads :
             (SendMessage(s, payload)
                /\ (~payload.present
                      \/ MalformedPair(payload.sender, payload.receiver)))
             => Quiet
        /\ \A m \in pending, dbOk \in BOOLEAN :
             (SaveSettles(m, dbOk) /\ MalformedPair(m.sender, m.receiver))
             => Quiet
      ]_vars

\* C2 witness: an iteration that only tests truthiness tried to persist a
\* malformed id, the save was rejected, and nothing was logged or delivered.
C2_Witness ==
    /\ ver \in {1, 2}
    /\ \E n \in 1..arrivals : status[n] = "rejected"
    /\ log = <<>> /\ emitted = <<>>
    /\ \A s \in Sessions : inbox[s] = <<>>

\* C3: join is idempotent.  A join with an id the session already joined
\* with leaves every subscription set as it was, and a saved message puts no
\* more events into a session's inbox than there were emits to the channels
\* the session is in (one copy per emit, however often it joined).
C3_JoinIdempotent ==
    [][ /\ \A s \in Sessions, userId \in Ids :
             (Join(s, userId) /\ called[s][userId] > 0) => rooms' = rooms
        /\ \A m \in pending, dbOk \in BOOLEAN :
             SaveSettles(m, dbOk) =>
                 \A s \in Sessions :
                     Len(NewIn(s)) =
                         Cardinality({j \in 1..Len(emitted') :
                                         /\ j > Len(emitted)
                                         /\ emitted'[j].chan \in rooms[s]})
      ]_vars

\* C3 witness: a session joined twice with the same id and then received a
\* message addressed to that id.
C3_Witness ==
    \E s \in Sessions, u \in {UserA, UserB} :
        /\ called[s][u] >= 2
        /\ \E i \in 1..Len(inbox[s]) : inbox[s][i].receiver = u

\* C4: the listeners of the channel of each well-formed id c are exactly the
\* open sessions that called join with c; a disconnect takes the session out
\* of every channel and changes no User and no Message.
C4_ListenersAreJoiners ==
    /\ [](\A c \in {UserA, UserB} :
            {s \in Sessions : String(c) \in rooms[s]}
                = {s \in Sessions : sock[s] = "open" /\ called[s][c] > 0})
    /\ [][\A s \in Sessions :
            Disconnect(s) => /\ rooms'[s] = {}
                             /\ users' = users
                             /\ log' = log]_vars

\* C4 witness: two sessions joined the same channel, one has disconnected,
\* the other is still listening.
C4_Witness ==
    \E s, t \in Sessions :
        /\ sock[s] = "open" /\ called[s][UserA] > 0
        /\ sock[t] = "closed" /\ called[t][UserA] > 0

\* C5: a login with the email and password of a registration that was
\* answered 201 is answered 200 with the id that registration assigned; a
\* login with an email and any other password is answered 401, whether or
\* not a user holds the email.
C5_LoginAfterRegister ==
    (resp.op = "login" /\ Present(resp.body.email) /\ Present(resp.body.password))
    => LET hits == {r \in registered : /\ r.email = resp.body.email
                                        /\ r.password = resp.body.password}
       IN  /\ \A r \in hits : resp.status = 200 /\ resp.id = r.id
           /\ hits = {} => resp.status = 401

\* C5 witness: a login was answered 200 with the id of a registration.
C5_Witness ==
    /\ resp.op = "login" /\ resp.status = 200
    /\ \E r \in registered : r.id = resp.id /\ r.email = resp.body.email

\* C6 (as claimed): a register request with name, email and password is
\* answered 201 or 409, and 201 only once per email, under every
\* interleaving of the requests.
C6_RegisterAnswers201Or409 ==
    (resp.op = "register" /\ Present(resp.body.name) /\ Present(resp.body.email)
        /\ Present(resp.body.password))
    => resp.status \in {201, 409}

\* C7: PUT /api/users/:id answers 400 to a malformed id and 404 to a
\* well-formed id no user has, changing no User either time; otherwise it
\* answers 200 with the summary of that user as updated.
C7_UpdateProfileAnswers ==
    [][\A id \in ParamIds, name \in Names, avatarImage \in Avatars :
          UpdateProfile(id, name, avatarImage) =>
              LET held == {i \in 1..Len(users) : users[i]._id = id}
              IN  IF ~WellFormed(id)
                  THEN resp'.status = 400 /\ users' = users
                  ELSE IF held = {}
                  THEN resp'.status = 404 /\ users' = users
                  ELSE /\ resp'.status = 200
                       /\ \A i \in held :
                            /\ resp'.user._id = id
                            /\ resp'.user.email = users[i].email
                            /\ resp'.user.name = users'[i].name
                            /\ resp'.user.avatarImage = users'[i].avatarImage
                            /\ Present(name) => users'[i].name = name
                            /\ Present(avatarImage) =>
                                   users'[i].avatarImage = avatarImage
      ]_vars

\* C7 witness: an update was answered 200 and the user carries the new avatar.
C7_Witness ==
    /\ resp.op = "update" /\ resp.status = 200
    /\ \E i \in 1..Len(users) :
          users[i]._id = resp.id /\ users[i].avatarImage = "img"

\* C8 (as claimed): a join with an absent or malformed id changes no
\* subscription set and emits nothing.
C8_MalformedJoinIsSilent ==
    [][\A s \in Sessions, userId \in Ids :
          (Join(s, userId) /\ ~WellFormed(userId)) => (rooms' = rooms /\ Quiet)
      ]_vars

\* C9 (as claimed): the messages of one session are logged, and their
\* events emitted, in the order in which the session sent them.
C9_SessionOrderKept ==
    /\ \A i, j \in 1..Len(log) :
          (i < j /\ log[i].from = log[j].from) => log[i].id < log[j].id
    /\ \A i, j \in 1..Len(emitted) :
          (i < j /\ \E a, b \in 1..Len(log) :
                       /\ log[a].id = emitted[i].id /\ log[b].id = emitted[j].id
                       /\ log[a].from = log[b].from)
          => emitted[i].id <= emitted[j].id

\* C10: a disconnect cancels no save in flight, and a save that succeeds
\* after its session has gone still logs the Message and still delivers
\* receive_message to every session in the receiver's channel.
C10_OrphanSaveStillFansOut ==
    [][ /\ \A s \in Sessions : Disconnect(s) => pending' = pending
        /\ \A m \in pending, dbOk \in BOOLEAN :
             (SaveSettles(m, dbOk) /\ sock[m.from] = "closed"
                /\ SaveResult(m, dbOk) = "ok")
             => /\ Len(log') = Len(log) + 1
                /\ log'[Len(log')].id = m.id
                /\ \A s \in Sessions :
                     String(m.receiver) \in rooms[s] =>
                         \E i \in 1..Len(NewIn(s)) :
                             /\ NewIn(s)[i].event = "receive_message"
                             /\ NewIn(s)[i].id = m.id
      ]_vars

\* C10 witness: a message whose session disconnected during the save is in
\* the log and in the inbox of a session that is still open.
C10_Witness ==
    \E n \in orphans :
        /\ status[n] = "ok"
        /\ \E i \in 1..Len(log) : log[i].id = n /\ sock[log[i].from] = "closed"
        /\ \E s \in Sessions :
              /\ sock[s] = "open"
              /\ \E i \in 1..Len(inbox[s]) : inbox[s][i].id = n

\* C11: every open session that joined with a well-formed id u gets every
\* event emitted to the channel of u; with several sessions of one user
\* connected, a saved message to u reaches each of them.
C11_EverySessionOfUserReceives ==
    [][\A m \in pending, dbOk \in BOOLEAN :
          SaveSettles(m, dbOk) =>
              \A s \in Sessions, u \in {UserA, UserB} :
                  (sock[s] = "open" /\ called[s][u] > 0) =>
                      \A j \in (Len(emitted) + 1)..Len(emitted') :
                          emitted'[j].chan = String(u) =>
                              \E i \in 1..Len(NewIn(s)) :
                                  /\ NewIn(s)[i].event = emitted'[j].event
                                  /\ NewIn(s)[i].id = emitted'[j].id
      ]_vars

\* C11 witness: both sessions joined with the same id, both are open, and
\* both hold the receive_message of one message sent to that id.
C11_Witness ==
    \E n \in 1..arrivals :
        \A s \in Sessions :
            /\ sock[s] = "open" /\ called[s][UserB] > 0
            /\ \E i \in 1..Len(inbox[s]) :
                  /\ inbox[s][i].id = n /\ inbox[s][i].receiver = UserB
                  /\ inbox[s][i].event = "receive_message"

\* the channels a join with userId subscribes to: the user's own and those
\* of the rooms that have the user as a member
JoinChannels(userId) ==
    {String(userId)} \cup
    {String(r) : r \in {x \in DOMAIN directory : userId \in directory[x]}}

C13_FailedLoginsAnswerAlike ==
    [][\A email \in Emails, password \in Passwords :
          (Login(email, password) /\ Present(email) /\ Present(password)
              /\ ~\E r \in registered : r.email = email /\ r.password = password)
          => LET unknown == LoginAnswer(ver, <<>>, email, password)
             IN  /\ unknown.status = 401
                 /\ resp'.status = unknown.status
                 /\ resp'.message = unknown.message
                 /\ resp'.user = unknown.user
      ]_vars

\* C13 witness: a login with a registered email and another password than
\* the registered one was answered 401.
C13_Witness ==
    /\ resp.op = "login" /\ resp.status = 401
    /\ Present(resp.body.password)
    /\ \E r \in registered : r.email = resp.body.email
                              /\ r.password # resp.body.password

\* the receive_message events session s got for message n
Copies(s, n) ==
    {i \in 1..Len(inbox[s]) :
        inbox[s][i].event = "receive_message" /\ inbox[s][i].id = n}

\* C14: for each accepted send_message, a session subscribed to a destination
\* channel gets exactly one receive_message for that message: no session
\* ever holds two receive_message events of one message.
C14_OneEventPerSession ==
    \A s \in Sessions, n \in 1..arrivals : Cardinality(Copies(s, n)) <= 1

\* C15: an event is emitted only for a Message whose append to the log has
\* succeeded; when the append fails (rejected by the schema or failed in the
\* store) nothing is emitted to any channel, no session (the originating one
\* included) gets any event, and the handler ends there: the failure is
\* caught, the save is no longer in flight and every session stays as it was.
C15_PersistenceBeforeFanOut ==
    [][ /\ \A j \in (Len(emitted) + 1)..Len(emitted') :
              /\ status'[emitted'[j].id] = "ok"
              /\ \E i \in 1..Len(log') : log'[i].id = emitted'[j].id
        /\ \A m \in pending :
              (SaveSettles(m, FALSE) \/ (SaveSettles(m, TRUE) /\ status'[m.id] # "ok"))
              => /\ Quiet
                 /\ status'[m.id] \in {"failed", "rejected"}
                 /\ m \notin pending'
                 /\ sock' = sock
      ]_vars

\* C15 witness: a save failed in the store while an open session was in the
\* receiver's channel; nothing was emitted and no inbox got anything.
C15_Witness ==
    \E n \in 1..arrivals, s \in Sessions :
        /\ status[n] = "failed"
        /\ sock[s] = "open" /\ rooms[s] # {}
        /\ emitted = <<>>
        /\ \A t \in Sessions : inbox[t] = <<>>

\* C16: whatever the interleaving of register, login and profile-update
\* requests, no two User records have the same email.
C16_EmailsAreUnique ==
    \A i, j \in 1..Len(users) : users[i].email = users[j].email => i = j

\* C16 witness: two registrations of one email were in flight together; the
\* second save was turned down by the index and answered 500, and the
\* collection holds that email once.
C16_Witness ==
    /\ resp.op = "register" /\ resp.status = 500
    /\ Cardinality({i \in 1..Len(users) : users[i].email = resp.body.email}) = 1

\* C17: no step deletes a User or changes an existing User's id, email or
\* credential hash; a User record changes only in a profile-update for its
\* id; and every login that is answered 200 before a step is answered 200,
\* for the same user, after it.
C17_UserChangesOnlyByProfileUpdate ==
    [][ /\ Len(users') >= Len(users)
        /\ \A i \in 1..Len(users) :
              /\ users'[i]._id = users[i]._id
              /\ users'[i].email = users[i].email
              /\ users'[i].password = users[i].password
              /\ users'[i] # users[i] =>
                    \E name \in Names, avatarImage \in Avatars :
                        UpdateProfile(users[i]._id, name, avatarImage)
        /\ \A email \in Emails, password \in Passwords :
              LoginAnswer(ver, users, email, password).status = 200 =>
                  /\ LoginAnswer(ver, users', email, password).status = 200
                  /\ LoginAnswer(ver, users', email, password).user._id =
                        LoginAnswer(ver, users, email, password).user._id
      ]_vars

\* C17 witness: a user whose profile was updated (registration sets no
\* avatar) logged in with the registered email and password and got 200.
C17_Witness ==
    /\ resp.op = "login" /\ resp.status = 200
    /\ resp.user.avatarImage = "img"
    /\ \E r \in registered : /\ r.id = resp.id
                              /\ r.email = resp.body.email
                              /\ r.password = resp.body.password

\* C18: a session gets a receive_message event only while it is connected
\* and only for a message whose receiver or sender is an id it joined with;
\* a session that never joined, and one that has disconnected, gets none.
C18_ChannelIsolation ==
    [][\A s \in Sessions :
          \A i \in 1..Len(NewIn(s)) :
              NewIn(s)[i].event = "receive_message" =>
                  /\ sock[s] = "open"
                  /\ \E u \in Ids :
                        /\ called[s][u] > 0
                        /\ u \in {NewIn(s)[i].receiver, NewIn(s)[i].sender}
      ]_vars

\* C18 witness: a message was delivered to a session of its receiver while
\* another session was connected and had never joined; that one got nothing.
C18_Witness ==
    \E s, t \in Sessions :
        /\ sock[s] = "open"
        /\ \A u \in Ids : called[s][u] = 0
        /\ inbox[s] = <<>>
        /\ \E i \in 1..Len(inbox[t]) :
              /\ inbox[t][i].event = "receive_message"
              /\ called[t][inbox[t][i].receiver] > 0

====
